---- MODULE Spec2Model ----
(***************************************************************************)
(* A model of the simple_cli library (src/src/lib.rs): the validators, the *)
(* four input acquisition operations and the paginated list navigator.     *)
(*                                                                         *)
(* Text is a sequence of characters, each a string; the character Block    *)
(* stands for 2^31 consecutive "x" characters, so that texts longer than   *)
(* a 32-bit integer can be written down.  Standard input is a              *)
(* source of read outcomes: a line (its text followed by "\n"), end of     *)
(* file (read_line returns Ok(0) and appends nothing) or an I/O error.     *)
(* Standard output is the sequence `out` of printed events.                *)
(***************************************************************************)
EXTENDS Integers, Sequences, FiniteSets, TLC

VARIABLES
    op,               \* the public operation that was called
    args,             \* its arguments (and the build's overflow-checks setting
                      \* where the operation's arithmetic can overflow)
    pc,               \* where the call stands
    current_page,     \* paginated_list: current_page
    number_of_pages,  \* paginated_list: number_of_pages
    quit,             \* paginated_list: quit
    input,            \* the `input` String buffer of the running prompt loop
    out,              \* everything printed to standard output so far
    reads,            \* number of read_line calls made so far
    last_read,        \* the outcome of the latest read_line call, None before it
    ret,              \* the value returned, None until the call returns
    panic             \* the panic message, None unless the call panicked

vars == <<op, args, pc, current_page, number_of_pages, quit, input, out, reads,
          last_read, ret, panic>>

-----------------------------------------------------------------------------
(* Bounds of the model. *)

MaxItems == 4      \* small item lists have 0..MaxItems items
MaxPerPage == 3    \* positive items_per_page values are 1..MaxPerPage
MaxReads == 3      \* read_line calls explored per call
MaxValue == 6      \* numbers given to check_min_max are -4..MaxValue
MaxLength == 6     \* small lengths given to check_length are 0..MaxLength

-----------------------------------------------------------------------------
(* Option<T>: None is the empty sequence, Some(x) the one-element one. *)

None == <<>>
Some(x) == <<x>>
IsSome(o) == Len(o) > 0
Unwrap(o) == o[1]

-----------------------------------------------------------------------------
(* Machine integers. *)

I32Max == 2147483647
I32Min == (-I32Max) - 1

(* A usize length is q * 2^31 + r with 0 <= r < 2^31, so that lengths past *)
(* the 32-bit range can be written down.                                   *)
Usize(q, r) == [q |-> q, r |-> r]

(* `x as i32` for a usize x: the low 32 bits, read as two's complement.    *)
AsI32(u) == IF u.q % 2 = 1 THEN (u.r - I32Max) - 1 ELSE u.r

(* i as usize < len, for an i32 index i >= 0 (the slice bounds check).     *)
IndexInBounds(i, len) == len.q > 0 \/ i < len.r

(* Rust's `/` and `%` on i32 truncate toward zero. *)
RECURSIVE RustDiv(_, _)
RustDiv(a, b) ==
    IF b < 0 THEN -RustDiv(a, -b)
    ELSE IF a >= 0 \/ a % b = 0 THEN a \div b ELSE (a \div b) + 1
RustRem(a, b) == a - RustDiv(a, b) * b

(* i32::div_ceil (feature int_roundings). *)
DivCeil(a, b) ==
    LET d == RustDiv(a, b)
        r == RustRem(a, b)
    IN  IF (r > 0 /\ b > 0) \/ (r < 0 /\ b < 0) THEN d + 1 ELSE d

-----------------------------------------------------------------------------
(* Text.  A text is a sequence of characters.  A character is written as   *)
(* the string of that one character, or, where a module cannot hold the    *)
(* character itself (the grave accent among them), as its code point       *)
(* "U+XXXX".  The alphabet is printable ASCII, Latin-1 (U+0080..U+00FF),   *)
(* the Greek and Coptic block (U+0370..U+03FF), every White_Space          *)
(* character, U+0130, U+0307 and a few characters of three and four bytes. *)

Block == "x * 2^31"

(* The characters of two, three and four bytes in UTF-8; every other       *)
(* character of the alphabet is ASCII.                                     *)
TwoByteChars ==
    {"", "", "", "", "", "", "", "", "", "", "", "", "", "",
     "", "", "", "", "", "", "", "", "", "", "", "", "", "",
     "", "", "", "", " ", "¡", "¢", "£", "¤", "¥", "¦", "§", "¨", "©",
     "ª", "«", "¬", "­", "®", "¯", "°", "±", "²", "³", "´", "µ", "¶", "·",
     "¸", "¹", "º", "»", "¼", "½", "¾", "¿", "À", "Á", "Â", "Ã", "Ä", "Å",
     "Æ", "Ç", "È", "É", "Ê", "Ë", "Ì", "Í", "Î", "Ï", "Ð", "Ñ", "Ò", "Ó",
     "Ô", "Õ", "Ö", "×", "Ø", "Ù", "Ú", "Û", "Ü", "Ý", "Þ", "ß", "à", "á",
     "â", "ã", "ä", "å", "æ", "ç", "è", "é", "ê", "ë", "ì", "í", "î", "ï",
     "ð", "ñ", "ò", "ó", "ô", "õ", "ö", "÷", "ø", "ù", "ú", "û", "ü", "ý",
     "þ", "ÿ", "U+0130", "U+0307", "U+0370", "U+0371", "U+0372", "U+0373",
     "U+0374", "U+0375", "U+0376", "U+0377", "U+037A", "U+037B", "U+037C",
     "U+037D", "U+037E", "U+037F", "΄", "΅", "Ά", "·", "Έ", "Ή", "Ί", "Ό",
     "Ύ", "Ώ", "ΐ", "Α", "Β", "Γ", "Δ", "Ε", "Ζ", "Η", "Θ", "Ι", "Κ", "Λ",
     "Μ", "Ν", "Ξ", "Ο", "Π", "Ρ", "Σ", "Τ", "Υ", "Φ", "Χ", "Ψ", "Ω", "Ϊ",
     "Ϋ", "ά", "έ", "ή", "ί", "ΰ", "α", "β", "γ", "δ", "ε", "ζ", "η", "θ",
     "ι", "κ", "λ", "μ", "ν", "ξ", "ο", "π", "ρ", "ς", "σ", "τ", "υ", "φ",
     "χ", "ψ", "ω", "ϊ", "ϋ", "ό", "ύ", "ώ", "Ϗ", "ϐ", "ϑ", "ϒ", "ϓ", "ϔ",
     "ϕ", "ϖ", "ϗ", "Ϙ", "ϙ", "Ϛ", "ϛ", "Ϝ", "ϝ", "Ϟ", "ϟ", "Ϡ", "ϡ", "Ϣ",
     "ϣ", "Ϥ", "ϥ", "Ϧ", "ϧ", "Ϩ", "ϩ", "Ϫ", "ϫ", "Ϭ", "ϭ", "Ϯ", "ϯ", "ϰ",
     "ϱ", "ϲ", "ϳ", "ϴ", "ϵ", "϶", "Ϸ", "ϸ", "Ϲ", "Ϻ", "ϻ", "ϼ", "Ͻ", "Ͼ",
     "Ͽ"}
ThreeByteChars ==
    {" ", "U+2000", "U+2001", "U+2002", "U+2003", "U+2004", "U+2005",
     "U+2006", "U+2007", "U+2008", "U+2009", "U+200A", "U+2028", "U+2029",
     "U+202F", "U+205F", "€", "U+3000", "日", "U+672C"}
FourByteChars ==
    {"U+1F600"}

(* char::len_utf8 *)
Utf8Len(c) ==
    IF c \in TwoByteChars THEN 2
    ELSE IF c \in ThreeByteChars THEN 3
    ELSE IF c \in FourByteChars THEN 4
    ELSE 1

(* char::is_whitespace, the White_Space property: U+0009..U+000D, U+0020,  *)
(* U+0085, U+00A0, U+1680, U+2000..U+200A, U+2028, U+2029, U+202F, U+205F, *)
(* U+3000.                                                                 *)
Whitespace ==
    {"\t", "\n", "", "\f", "\r", " ", "", " ", " ", "U+2000", "U+2001",
     "U+2002", "U+2003", "U+2004", "U+2005", "U+2006", "U+2007", "U+2008",
     "U+2009", "U+200A", "U+2028", "U+2029", "U+202F", "U+205F", "U+3000"}

RECURSIVE TrimStart(_)
TrimStart(s) ==
    IF s /= <<>> /\ Head(s) \in Whitespace THEN TrimStart(Tail(s)) ELSE s

RECURSIVE TrimEnd(_)
TrimEnd(s) ==
    IF s /= <<>> /\ s[Len(s)] \in Whitespace
    THEN TrimEnd(SubSeq(s, 1, Len(s) - 1))
    ELSE s

(* str::trim *)
Trim(s) == TrimEnd(TrimStart(s))

(* The upper-case letters with a one-character lower case, and that lower  *)
(* case at the same position.                                              *)
UpperLetters ==
     <<"A", "B", "C", "D", "E", "F", "G", "H", "I", "J", "K", "L", "M", "N",
      "O", "P", "Q", "R", "S", "T", "U", "V", "W", "X", "Y", "Z", "À", "Á",
      "Â", "Ã", "Ä", "Å", "Æ", "Ç", "È", "É", "Ê", "Ë", "Ì", "Í", "Î", "Ï",
      "Ð", "Ñ", "Ò", "Ó", "Ô", "Õ", "Ö", "Ø", "Ù", "Ú", "Û", "Ü", "Ý", "Þ",
      "U+0370", "U+0372", "U+0376", "U+037F", "Ά", "Έ", "Ή", "Ί", "Ό", "Ύ",
      "Ώ", "Α", "Β", "Γ", "Δ", "Ε", "Ζ", "Η", "Θ", "Ι", "Κ", "Λ", "Μ", "Ν",
      "Ξ", "Ο", "Π", "Ρ", "Σ", "Τ", "Υ", "Φ", "Χ", "Ψ", "Ω", "Ϊ", "Ϋ", "Ϗ",
      "Ϙ", "Ϛ", "Ϝ", "Ϟ", "Ϡ", "Ϣ", "Ϥ", "Ϧ", "Ϩ", "Ϫ", "Ϭ", "Ϯ", "ϴ", "Ϸ",
      "Ϲ", "Ϻ", "Ͻ", "Ͼ", "Ͽ">>
LowerLetters ==
     <<"a", "b", "c", "d", "e", "f", "g", "h", "i", "j", "k", "l", "m", "n",
      "o", "p", "q", "r", "s", "t", "u", "v", "w", "x", "y", "z", "à", "á",
      "â", "ã", "ä", "å", "æ", "ç", "è", "é", "ê", "ë", "ì", "í", "î", "ï",
      "ð", "ñ", "ò", "ó", "ô", "õ", "ö", "ø", "ù", "ú", "û", "ü", "ý", "þ",
      "U+0371", "U+0373", "U+0377", "ϳ", "ά", "έ", "ή", "ί", "ό", "ύ", "ώ",
      "α", "β", "γ", "δ", "ε", "ζ", "η", "θ", "ι", "κ", "λ", "μ", "ν", "ξ",
      "ο", "π", "ρ", "σ", "τ", "υ", "φ", "χ", "ψ", "ω", "ϊ", "ϋ", "ϗ", "ϙ",
      "ϛ", "ϝ", "ϟ", "ϡ", "ϣ", "ϥ", "ϧ", "ϩ", "ϫ", "ϭ", "ϯ", "θ", "ϸ", "ϲ",
      "ϻ", "U+037B", "U+037C", "U+037D">>

(* char::to_lowercase for a character whose lower case is one character *)
LowerChar(c) ==
    IF \E i \in 1..Len(UpperLetters) : UpperLetters[i] = c
    THEN LowerLetters[CHOOSE i \in 1..Len(UpperLetters) : UpperLetters[i] = c]
    ELSE c

(* The properties Cased and Case_Ignorable on the alphabet. *)
Cased ==
    {"A", "B", "C", "D", "E", "F", "G", "H", "I", "J", "K", "L", "M", "N",
     "O", "P", "Q", "R", "S", "T", "U", "V", "W", "X", "Y", "Z", "a", "b",
     "c", "d", "e", "f", "g", "h", "i", "j", "k", "l", "m", "n", "o", "p",
     "q", "r", "s", "t", "u", "v", "w", "x", "y", "z", "ª", "µ", "º", "À",
     "Á", "Â", "Ã", "Ä", "Å", "Æ", "Ç", "È", "É", "Ê", "Ë", "Ì", "Í", "Î",
     "Ï", "Ð", "Ñ", "Ò", "Ó", "Ô", "Õ", "Ö", "Ø", "Ù", "Ú", "Û", "Ü", "Ý",
     "Þ", "ß", "à", "á", "â", "ã", "ä", "å", "æ", "ç", "è", "é", "ê", "ë",
     "ì", "í", "î", "ï", "ð", "ñ", "ò", "ó", "ô", "õ", "ö", "ø", "ù", "ú",
     "û", "ü", "ý", "þ", "ÿ", "U+0130", "U+0370", "U+0371", "U+0372",
     "U+0373", "U+0376", "U+0377", "U+037A", "U+037B", "U+037C", "U+037D",
     "U+037F", "Ά", "Έ", "Ή", "Ί", "Ό", "Ύ", "Ώ", "ΐ", "Α", "Β", "Γ", "Δ",
     "Ε", "Ζ", "Η", "Θ", "Ι", "Κ", "Λ", "Μ", "Ν", "Ξ", "Ο", "Π", "Ρ", "Σ",
     "Τ", "Υ", "Φ", "Χ", "Ψ", "Ω", "Ϊ", "Ϋ", "ά", "έ", "ή", "ί", "ΰ", "α",
     "β", "γ", "δ", "ε", "ζ", "η", "θ", "ι", "κ", "λ", "μ", "ν", "ξ", "ο",
     "π", "ρ", "ς", "σ", "τ", "υ", "φ", "χ", "ψ", "ω", "ϊ", "ϋ", "ό", "ύ",
     "ώ", "Ϗ", "ϐ", "ϑ", "ϒ", "ϓ", "ϔ", "ϕ", "ϖ", "ϗ", "Ϙ", "ϙ", "Ϛ", "ϛ",
     "Ϝ", "ϝ", "Ϟ", "ϟ", "Ϡ", "ϡ", "Ϣ", "ϣ", "Ϥ", "ϥ", "Ϧ", "ϧ", "Ϩ", "ϩ",
     "Ϫ", "ϫ", "Ϭ", "ϭ", "Ϯ", "ϯ", "ϰ", "ϱ", "ϲ", "ϳ", "ϴ", "ϵ", "Ϸ", "ϸ",
     "Ϲ", "Ϻ", "ϻ", "ϼ", "Ͻ", "Ͼ", "Ͽ"}
CaseIgnorable ==
    {"'", ".", ":", "^", "U+0060", "¨", "­", "¯", "´", "·", "¸", "U+0307",
     "U+0374", "U+0375", "U+037A", "΄", "΅", "·"}

(* case_ignorable_then_cased: the first character of s that is not         *)
(* Case_Ignorable exists and is Cased.                                     *)
RECURSIVE CaseIgnorableThenCased(_)
CaseIgnorableThenCased(s) ==
    IF s = <<>> THEN FALSE
    ELSE IF Head(s) \in CaseIgnorable THEN CaseIgnorableThenCased(Tail(s))
    ELSE Head(s) \in Cased

Reverse(s) == [i \in 1..Len(s) |-> s[Len(s) + 1 - i]]

(* map_uppercase_sigma: a capital sigma at the end of a word becomes the   *)
(* final sigma.                                                            *)
LowerSigma(s, i) ==
    IF /\ CaseIgnorableThenCased(Reverse(SubSeq(s, 1, i - 1)))
       /\ ~CaseIgnorableThenCased(SubSeq(s, i + 1, Len(s)))
    THEN "ς" ELSE "σ"

(* The lower case of the character at position i of s: one character, but  *)
(* two for the capital I with dot above (U+0130).                          *)
LowerAt(s, i) ==
    IF s[i] = "Σ" THEN <<LowerSigma(s, i)>>
    ELSE IF s[i] = "U+0130" THEN <<"i", "U+0307">>
    ELSE <<LowerChar(s[i])>>

RECURSIVE LowerFrom(_, _)
LowerFrom(s, i) == IF i > Len(s) THEN <<>> ELSE LowerAt(s, i) \o LowerFrom(s, i + 1)

(* str::to_lowercase *)
ToLowercase(s) == LowerFrom(s, 1)

Digits == {"0", "1", "2", "3", "4", "5", "6", "7", "8", "9"}

DigitValue(c) ==
    CASE c = "0" -> 0 [] c = "1" -> 1 [] c = "2" -> 2 [] c = "3" -> 3
      [] c = "4" -> 4 [] c = "5" -> 5 [] c = "6" -> 6 [] c = "7" -> 7
      [] c = "8" -> 8 [] c = "9" -> 9

-----------------------------------------------------------------------------
(* Numbers.  A value of an integer type is [nan, v] with the integer v.  A *)
(* value of f32 is [nan, neg, v]: neg is the sign bit and v the other 31   *)
(* bits of the IEEE 754 encoding read as an integer, negated when neg; v   *)
(* orders the floats as the floats are ordered, and is 0 for both zeros.   *)
(* NaN has nan set (its sign is not observable).  PartialOrd: every        *)
(* comparison with NaN is false.                                           *)

Num(n) == [nan |-> FALSE, v |-> n]
NaN == [nan |-> TRUE, neg |-> FALSE, v |-> 0]

NumLt(a, b) == ~a.nan /\ ~b.nan /\ a.v < b.v
NumGt(a, b) == ~a.nan /\ ~b.nan /\ a.v > b.v
NumEq(a, b) == ~a.nan /\ ~b.nan /\ a.v = b.v

ParseOk(n) == [ok |-> TRUE, v |-> n]
ParseErr == [ok |-> FALSE, v |-> Num(0)]

AllDigits(s) == \A i \in 1..Len(s) : s[i] \in Digits

(* Accumulate decimal digits upward (checked_mul, checked_add); -1 on      *)
(* overflow past hi.                                                       *)
RECURSIVE AccumulatePos(_, _, _)
AccumulatePos(s, acc, hi) ==
    IF s = <<>> THEN acc
    ELSE LET d == DigitValue(Head(s))
         IN  IF acc > (hi - d) \div 10 THEN -1
             ELSE AccumulatePos(Tail(s), acc * 10 + d, hi)

(* Accumulate decimal digits downward (checked_mul, checked_sub); 1 on     *)
(* overflow below lo.                                                      *)
RECURSIVE AccumulateNeg(_, _, _)
AccumulateNeg(s, acc, lo) ==
    IF s = <<>> THEN acc
    ELSE LET d == DigitValue(Head(s))
         IN  IF acc < RustDiv(lo + d, 10) THEN 1
             ELSE AccumulateNeg(Tail(s), acc * 10 - d, lo)

(* <integer>::from_str for a type with range lo..hi: an optional sign and  *)
(* at least one decimal digit, in range.                                   *)
ParseInt(s, lo, hi) ==
    IF s = <<>> THEN ParseErr
    ELSE LET signed == Head(s) \in {"+", "-"}
             body == IF signed THEN Tail(s) ELSE s
         IN  IF body = <<>> \/ ~AllDigits(body) THEN ParseErr
             ELSE IF Head(s) = "-"
                  THEN LET n == AccumulateNeg(body, 0, lo)
                       IN  IF n = 1 THEN ParseErr ELSE ParseOk(Num(n))
                  ELSE LET n == AccumulatePos(body, 0, hi)
                       IN  IF n = -1 THEN ParseErr ELSE ParseOk(Num(n))

(* Natural numbers of any size, as their digits in base 2^15 from the      *)
(* lowest up, without leading zeros; zero is the empty sequence.           *)
Base == 32768
BaseBits == 15

RECURSIVE Big(_)
Big(n) == IF n = 0 THEN <<>> ELSE <<n % Base>> \o Big(n \div Base)

(* a * m + c for small m and c *)
RECURSIVE BigMulSmall(_, _, _)
BigMulSmall(a, m, c) ==
    IF a = <<>> THEN Big(c)
    ELSE LET t == Head(a) * m + c
         IN  <<t % Base>> \o BigMulSmall(Tail(a), m, t \div Base)

(* a * 2^k *)
BigShl(a, k) ==
    IF a = <<>> THEN <<>>
    ELSE [i \in 1..(k \div BaseBits) |-> 0] \o BigMulSmall(a, 2^(k % BaseBits), 0)

RECURSIVE BigTimesPow10(_, _)
BigTimesPow10(a, k) == IF k = 0 THEN a ELSE BigTimesPow10(BigMulSmall(a, 10, 0), k - 1)

RECURSIVE BigFromDigits(_, _)
BigFromDigits(digits, acc) ==
    IF digits = <<>> THEN acc
    ELSE BigFromDigits(Tail(digits), BigMulSmall(acc, 10, DigitValue(Head(digits))))

(* The number of bits of a. *)
BigBitLen(a) ==
    IF a = <<>> THEN 0
    ELSE LET top == a[Len(a)]
         IN  (Len(a) - 1) * BaseBits
               + (CHOOSE k \in 1..BaseBits : 2^(k - 1) <= top /\ top < 2^k)

(* a >= b *)
RECURSIVE BigGe(_, _)
BigGe(a, b) ==
    IF Len(a) /= Len(b) THEN Len(a) > Len(b)
    ELSE IF a = <<>> THEN TRUE
    ELSE IF a[Len(a)] /= b[Len(b)] THEN a[Len(a)] > b[Len(b)]
    ELSE BigGe(SubSeq(a, 1, Len(a) - 1), SubSeq(b, 1, Len(b) - 1))

RECURSIVE StripZeros(_)
StripZeros(a) ==
    IF a /= <<>> /\ a[Len(a)] = 0 THEN StripZeros(SubSeq(a, 1, Len(a) - 1)) ELSE a

RECURSIVE BigSubBorrow(_, _, _)
BigSubBorrow(a, b, c) ==
    IF a = <<>> THEN <<>>
    ELSE LET y == IF b = <<>> THEN 0 ELSE Head(b)
             t == Head(a) - y - c
         IN  <<t % Base>> \o BigSubBorrow(Tail(a), IF b = <<>> THEN b ELSE Tail(b),
                                          IF t < 0 THEN 1 ELSE 0)

(* a - b for a >= b *)
BigSub(a, b) == StripZeros(BigSubBorrow(a, b, 0))

(* The quotient of n by d, below 2^(i+1), and whether a remainder is left. *)
RECURSIVE BigDiv(_, _, _, _)
BigDiv(n, d, i, q) ==
    IF i < 0 THEN [q |-> q, inexact |-> n /= <<>>]
    ELSE LET part == BigShl(d, i)
         IN  IF BigGe(n, part) THEN BigDiv(BigSub(n, part), d, i - 1, q + 2^i)
             ELSE BigDiv(n, d, i - 1, q)

(* The f32 with sign neg and encoding bits (exponent and fraction). *)
F32Bits(neg, bits) == [nan |-> FALSE, neg |-> neg, v |-> IF neg THEN -bits ELSE bits]

InfinityBits == 2139095040
Infinity(neg) == F32Bits(neg, InfinityBits)

(* The f32 of sign neg with the 24-bit mantissa (fewer bits for a          *)
(* subnormal) at the binary exponent e; past the largest float it is       *)
(* infinite.                                                               *)
F32FromParts(neg, mantissa, e) ==
    IF mantissa < 2^23 THEN F32Bits(neg, mantissa)
    ELSE IF e > 104 THEN Infinity(neg)
    ELSE F32Bits(neg, (e + 150) * 2^23 + (mantissa - 2^23))

(* Rounding to nearest, ties to even: kept are the bits kept, guard the    *)
(* first bit dropped, sticky whether anything lies below it.  A mantissa   *)
(* that rounds up to 2^24 moves to the next exponent.                      *)
RoundKept(neg, kept, guard, sticky, exponent) ==
    IF guard = 1 /\ (sticky \/ kept % 2 = 1)
    THEN IF kept + 1 = 2^24 THEN F32FromParts(neg, 2^23, exponent + 1)
         ELSE F32FromParts(neg, kept + 1, exponent)
    ELSE F32FromParts(neg, kept, exponent)

(* Drops the low `drop` bits of the quotient q, of `width` bits. *)
RoundAt(neg, q, inexact, width, drop, exponent) ==
    IF drop > width THEN RoundKept(neg, 0, 0, TRUE, exponent)
    ELSE RoundKept(neg, q \div 2^drop, (q \div 2^(drop - 1)) % 2,
                   q % 2^(drop - 1) /= 0 \/ inexact, exponent)

(* The quotient q of `width` bits stands for q * 2^-s: 24 bits of it are   *)
(* kept, fewer where that falls below the exponent -149 of the subnormals. *)
RoundQuotient(neg, s, q, inexact, width) ==
    IF (width - 24) - s > 104 THEN Infinity(neg)
    ELSE IF (width - 24) - s < -149 THEN RoundAt(neg, q, inexact, width, s - 149, -149)
    ELSE RoundAt(neg, q, inexact, width, width - 24, (width - 24) - s)

RoundDivision(neg, s, division) ==
    RoundQuotient(neg, s, division.q, division.inexact,
                  IF division.q >= 2^26 THEN 27 ELSE 26)

(* n * 2^s / d has 26 or 27 bits. *)
RoundScaled(neg, n, d, s) ==
    RoundDivision(neg, s, BigDiv(IF s >= 0 THEN BigShl(n, s) ELSE n,
                                 IF s < 0 THEN BigShl(d, -s) ELSE d, 26, 0))

(* The f32 nearest to n / d, ties to the even fraction, for naturals n and *)
(* d > 0 given as big numbers.                                             *)
RoundToF32(neg, n, d) ==
    IF n = <<>> THEN F32Bits(neg, 0)
    ELSE RoundScaled(neg, n, d, 26 - (BigBitLen(n) - BigBitLen(d)))

(* `n as f32` for an integer n *)
F32(n) == RoundToF32(n < 0, Big(IF n < 0 THEN -n ELSE n), <<1>>)

(* The value of the type T that is the small integer n. *)
Val(T, n) == IF T = "f32" THEN F32(n) ELSE Num(n)

RECURSIVE StripLeadingZeros(_)
StripLeadingZeros(s) ==
    IF s /= <<>> /\ Head(s) = "0" THEN StripLeadingZeros(Tail(s)) ELSE s

(* The longest prefix of s made of decimal digits. *)
RECURSIVE DigitPrefix(_)
DigitPrefix(s) ==
    IF s /= <<>> /\ Head(s) \in Digits THEN <<Head(s)>> \o DigitPrefix(Tail(s)) ELSE <<>>

(* The exponent's digits as a number: a digit is taken in while the number *)
(* is below ExponentCap (0x10000) and dropped afterwards.                  *)
ExponentCap == 65536
RECURSIVE AccumulateExponent(_, _)
AccumulateExponent(s, acc) ==
    IF s = <<>> THEN acc
    ELSE AccumulateExponent(Tail(s),
             IF acc < ExponentCap THEN acc * 10 + DigitValue(Head(s)) ELSE acc)

(* The decimal digits (without leading zeros) * 10^exponent10 as an f32.   *)
DigitsToF32(neg, digits, exponent10) ==
    IF digits = <<>> THEN F32Bits(neg, 0)
    ELSE IF Len(digits) + exponent10 > 39 THEN Infinity(neg)
    ELSE IF Len(digits) + exponent10 < -45 THEN F32Bits(neg, 0)
    ELSE RoundToF32(neg,
             BigTimesPow10(BigFromDigits(digits, <<>>),
                           IF exponent10 >= 0 THEN exponent10 ELSE 0),
             BigTimesPow10(<<1>>, IF exponent10 < 0 THEN -exponent10 ELSE 0))

(* The decimal digits * 10^exponent10 as an f32. *)
DecimalToF32(neg, all_digits, exponent10) ==
    DigitsToF32(neg, StripLeadingZeros(all_digits), exponent10)

(* The exponent after e or E: an optional sign and one digit at least. *)
ParseExponent(neg, digits, places, marked) ==
    LET exponent_neg == marked /= <<>> /\ Head(marked) = "-"
        exponent_digits == IF marked /= <<>> /\ Head(marked) \in {"+", "-"}
                           THEN Tail(marked) ELSE marked
    IN  IF exponent_digits = <<>> \/ ~AllDigits(exponent_digits) THEN ParseErr
        ELSE ParseOk(DecimalToF32(neg, digits,
                 (IF exponent_neg THEN -AccumulateExponent(exponent_digits, 0)
                  ELSE AccumulateExponent(exponent_digits, 0)) - places))

(* After the number's digits: the end, or an exponent. *)
ParseAfterNumber(neg, whole, fraction, after_number) ==
    IF whole = <<>> /\ fraction = <<>> THEN ParseErr
    ELSE IF after_number = <<>>
         THEN ParseOk(DecimalToF32(neg, whole \o fraction, -Len(fraction)))
    ELSE IF Head(after_number) \notin {"e", "E"} THEN ParseErr
    ELSE ParseExponent(neg, whole \o fraction, Len(fraction), Tail(after_number))

ParseFraction(neg, whole, after_point, fraction) ==
    ParseAfterNumber(neg, whole, fraction,
                     SubSeq(after_point, Len(fraction) + 1, Len(after_point)))

(* After the whole digits: an optional point and the fraction's digits. *)
ParseAfterWhole(neg, whole, after_whole) ==
    IF after_whole /= <<>> /\ Head(after_whole) = "."
    THEN ParseFraction(neg, whole, Tail(after_whole), DigitPrefix(Tail(after_whole)))
    ELSE ParseAfterNumber(neg, whole, <<>>, after_whole)

ParseDecimal(neg, body, whole) ==
    ParseAfterWhole(neg, whole, SubSeq(body, Len(whole) + 1, Len(body)))

(* After the sign: "inf", "infinity" or "nan" in any letter case, or a     *)
(* decimal number.                                                         *)
ParseUnsigned(neg, body, lower) ==
    IF lower = <<"n", "a", "n">> THEN ParseOk(NaN)
    ELSE IF lower \in {<<"i", "n", "f">>, <<"i", "n", "f", "i", "n", "i", "t", "y">>}
         THEN ParseOk(Infinity(neg))
    ELSE ParseDecimal(neg, body, DigitPrefix(body))

ParseSigned(neg, body) == ParseUnsigned(neg, body, ToLowercase(body))

(* f32::from_str: an optional sign, then "inf", "infinity" or "nan" in any *)
(* letter case, or decimal digits with an optional point (a digit on one   *)
(* side at least) and an optional exponent: e or E, an optional sign, and  *)
(* one digit at least.                                                     *)
ParseF32(s) ==
    IF s = <<>> THEN ParseErr
    ELSE ParseSigned(Head(s) = "-", IF Head(s) \in {"+", "-"} THEN Tail(s) ELSE s)

NumTypes == {"i8", "i32", "f32"}

(* str::parse::<T> *)
Parse(T, s) ==
    CASE T = "i8" -> ParseInt(s, -128, 127)
      [] T = "i32" -> ParseInt(s, I32Min, I32Max)
      [] T = "f32" -> ParseF32(s)

-----------------------------------------------------------------------------
(* Printed events. *)

Printed(text) == [tag |-> "prompt", text |-> text]
PrintedItem(i) == [tag |-> "item", index |-> i]
PrintedPage(page, total) == [tag |-> "page", page |-> page, total |-> total]
PrintedClear == [tag |-> "clear"]
PrintedInvalid(T) == [tag |-> "invalid_value", type |-> T]
PrintedTooLong(over, shown) == [tag |-> "too_long", over |-> over, limit |-> shown]
PrintedEmpty == [tag |-> "cannot_be_empty"]
PrintedBelowMin(n, min) == [tag |-> "below_min", input |-> n, bound |-> min]
PrintedAboveMax(n, max) == [tag |-> "above_max", input |-> n, bound |-> max]
PrintedNotOption(x, choices) == [tag |-> "not_an_option", input |-> x, choices |-> choices]
PrintedNotChoice(x) == [tag |-> "not_a_valid_choice", input |-> x]
PrintedCaseSensitive(b) == [tag |-> "case_sensitive", value |-> b]

(* print_prompt: what it prints *)
print_prompt(prompt) == IF IsSome(prompt) THEN <<Printed(Unwrap(prompt))>> ELSE <<>>

-----------------------------------------------------------------------------
(* Validators: each yields [ok, out], the decision and what it printed. *)

Accept == [ok |-> TRUE, out |-> <<>>, panic |-> None]
Reject(events) == [ok |-> FALSE, out |-> events, panic |-> None]

(* The validator panicked: it printed nothing and does not return. *)
Panics(message) == [ok |-> FALSE, out |-> <<>>, panic |-> Some(message)]

SubtractOverflow == "attempt to subtract with overflow"

(* a - b passes i32::MAX, for i32 a > b *)
SubOverflows(a, b) == b < 0 /\ a > I32Max + b

(* a.wrapping_sub(b), for i32 a > b *)
WrappingSub(a, b) == IF SubOverflows(a, b) THEN (a + I32Min) + (I32Min - b) ELSE a - b

(* `input_length - max` panics when it overflows in a build with overflow  *)
(* checks (debug) and wraps in a build without (release).                  *)
check_length(length, max_length, overflow_checks) ==
    IF IsSome(max_length)
    THEN LET max == Unwrap(max_length)
             input_length == AsI32(length)
         IN  IF input_length > max
             THEN IF SubOverflows(input_length, max) /\ overflow_checks
                  THEN Panics(SubtractOverflow)
                  ELSE Reject(<<PrintedTooLong(WrappingSub(input_length, max), length)>>)
             ELSE Accept
    ELSE Accept

check_empty(length, can_be_empty) ==
    LET input_length == AsI32(length)
    IN  IF input_length <= 0 /\ ~can_be_empty
        THEN Reject(<<PrintedEmpty>>)
        ELSE Accept

(* Mutant of check_min_max: a value out of range is rejected silently. *)
check_min_max_Silent(number, min_value, max_value) ==
    IF IsSome(min_value) /\ NumLt(number, Unwrap(min_value))
    THEN Reject(<<>>)
    ELSE IF IsSome(max_value) /\ NumGt(number, Unwrap(max_value))
         THEN Reject(<<>>)
         ELSE Accept

check_min_max(number, min_value, max_value) ==
    IF IsSome(min_value) /\ NumLt(number, Unwrap(min_value))
    THEN Reject(<<PrintedBelowMin(number, Unwrap(min_value))>>)
    ELSE IF IsSome(max_value) /\ NumGt(number, Unwrap(max_value))
         THEN Reject(<<PrintedAboveMax(number, Unwrap(max_value))>>)
         ELSE Accept

check_number_is_a_choice(number, choices, show_choices_on_failure) ==
    IF \E i \in 1..Len(choices) : NumEq(number, choices[i])
    THEN Accept
    ELSE IF show_choices_on_failure
         THEN Reject(<<PrintedNotOption(number, choices)>>)
         ELSE Reject(<<PrintedNotChoice(number)>>)

(* Mutant of check_string_is_a_choice: case_sensitive is not consulted. *)
check_string_is_a_choice_AnyCase(inp, choices, case_sensitive, show_choices_on_failure) ==
    IF \E i \in 1..Len(choices) :
           \/ inp = choices[i]
           \/ ToLowercase(inp) = ToLowercase(choices[i])
    THEN Accept
    ELSE IF show_choices_on_failure
         THEN Reject(<<PrintedNotOption(inp, choices), PrintedCaseSensitive(case_sensitive)>>)
         ELSE Reject(<<PrintedNotChoice(inp), PrintedCaseSensitive(case_sensitive)>>)

check_string_is_a_choice(inp, choices, case_sensitive, show_choices_on_failure) ==
    IF \E i \in 1..Len(choices) :
           \/ inp = choices[i]
           \/ ToLowercase(inp) = ToLowercase(choices[i]) /\ ~case_sensitive
    THEN Accept
    ELSE IF show_choices_on_failure
         THEN Reject(<<PrintedNotOption(inp, choices), PrintedCaseSensitive(case_sensitive)>>)
         ELSE Reject(<<PrintedNotChoice(inp), PrintedCaseSensitive(case_sensitive)>>)

-----------------------------------------------------------------------------
(* Standard input. *)

Line(text) == [kind |-> "line", text |-> text \o <<"\n">>]
Eof == [kind |-> "eof", text |-> <<>>]
ReadError == [kind |-> "err", text |-> <<>>]

(* The lines typed at the navigator. *)
NavigatorLines ==
    { <<"N">>, <<" ", "n">>, <<"p">>, <<"S">>, <<"e">>, <<"x">>, <<"2">>, <<"0">> }

(* The lines typed at an acquisition operation. *)
AcquisitionLines ==
    { <<"5">>, <<" ", "+", "2", "\t">>, <<"-", "3">>, <<"2", "0", "0">>,
      <<"N", "a", "N">>, <<"a", "x">>, <<"A", "X">>, <<>>,
      <<"α", "σ">>, <<Block>>, <<"\f", "1", ".", "5">> }

ReadOutcomes(lines) == {Line(t) : t \in lines} \cup {Eof, ReadError}

StdinPanic == "Unexpected stdin error while reading input"

-----------------------------------------------------------------------------
(* One iteration of each prompt loop, from read_line to the return or to   *)
(* the repeat message: buf is `input` before the read, r the read outcome  *)
(* (not an error).  Yields [done, value, out, input]: whether the loop     *)
(* returned, the value returned, what was printed, and `input` afterwards; *)
(* or panic, the message of a panic raised inside the iteration.           *)

Returned(value, buf) ==
    [done |-> TRUE, value |-> value, out |-> <<>>, input |-> buf, panic |-> None]

(* Mutant of Retry: the repeat message is not printed. *)
Retry_Silent(events, repeat_message) ==
    [done |-> FALSE, value |-> None, out |-> events, input |-> <<>>, panic |-> None]

Retry(events, repeat_message) ==
    [done |-> FALSE, value |-> None, out |-> events \o print_prompt(repeat_message),
     input |-> <<>>, panic |-> None]

Panicked(message, buf) ==
    [done |-> FALSE, value |-> None, out |-> <<>>, input |-> buf, panic |-> Some(message)]

RECURSIVE Utf8Bytes(_)
Utf8Bytes(s) == IF s = <<>> THEN 0 ELSE Utf8Len(Head(s)) + Utf8Bytes(Tail(s))

(* str::len: the length in bytes *)
Length(s) ==
    LET blocks == SelectSeq(s, LAMBDA c : c = Block)
        others == SelectSeq(s, LAMBDA c : c /= Block)
    IN  Usize(Len(blocks), Utf8Bytes(others))

(* Mutant of get_string_iteration: a rejected line stays in `input`. *)
get_string_iteration_KeepsInput(buf, r, repeat_message, max_length, can_be_empty, overflow_checks) ==
    LET line == buf \o r.text
        trimmed_input == Trim(line)
        length == Length(trimmed_input)
        c1 == check_length(length, max_length, overflow_checks)
        c2 == check_empty(length, can_be_empty)
        kept(events) == [done |-> FALSE, value |-> None, input |-> line,
                         out |-> events \o print_prompt(repeat_message), panic |-> None]
    IN  IF IsSome(c1.panic) THEN Panicked(Unwrap(c1.panic), line)
        ELSE IF c1.ok
        THEN IF c2.ok THEN Returned(trimmed_input, line)
             ELSE kept(c2.out)
        ELSE kept(c1.out)

get_string_iteration(buf, r, repeat_message, max_length, can_be_empty, overflow_checks) ==
    LET line == buf \o r.text
        trimmed_input == Trim(line)
        length == Length(trimmed_input)
        c1 == check_length(length, max_length, overflow_checks)
        c2 == check_empty(length, can_be_empty)
    IN  IF IsSome(c1.panic) THEN Panicked(Unwrap(c1.panic), line)
        ELSE IF c1.ok
        THEN IF c2.ok THEN Returned(trimmed_input, line)
             ELSE Retry(c2.out, repeat_message)
        ELSE Retry(c1.out, repeat_message)

get_number_iteration(T, buf, r, repeat_message, min_value, max_value) ==
    LET line == buf \o r.text
        parsed == Parse(T, Trim(line))
    IN  IF parsed.ok
        THEN LET c == check_min_max(parsed.v, min_value, max_value)
             IN  IF c.ok THEN Returned(parsed.v, line)
                 ELSE Retry(c.out, repeat_message)
        ELSE Retry(<<PrintedInvalid(T)>>, repeat_message)

select_number_iteration(T, buf, r, repeat_message, choices, show_choices_on_failure) ==
    LET line == buf \o r.text
        parsed == Parse(T, Trim(line))
    IN  IF parsed.ok
        THEN LET c == check_number_is_a_choice(parsed.v, choices, show_choices_on_failure)
             IN  IF c.ok THEN Returned(parsed.v, line)
                 ELSE Retry(c.out, repeat_message)
        ELSE Retry(<<PrintedInvalid(T)>>, repeat_message)

select_string_iteration(buf, r, repeat_message, choices, case_sensitive, show) ==
    LET line == buf \o r.text
        trimmed == Trim(line)
        c == check_string_is_a_choice(trimmed, choices, case_sensitive, show)
    IN  IF c.ok THEN Returned(trimmed, line)
        ELSE Retry(c.out, repeat_message)

EmptyNumberChoices == "You have not supplied a vector of at least one integer choices."
EmptyStringChoices == "You have not supplied a vector of at least one string choices."

-----------------------------------------------------------------------------
(* paginated_list *)

NavigatorPrompt ==
    "Press N to view the next page, P for previous, S for a specific page, or E to Exit."
NavigatorChoices == << <<"N">>, <<"P">>, <<"S">>, <<"E">> >>
PagePrompt == "Enter the page you would like to view."
ItemsPerPagePanic == "Items per page must be greater than zero."

(* let number_of_items = items.len() as i32 *)
number_of_items == AsI32(args.len)

(* number_of_pages as computed before the loop *)
PageCount(n, items_per_page) ==
    LET pages == DivCeil(n, items_per_page)
    IN  IF pages = 0 THEN 1 ELSE pages

(* the index range a..b-1 in order, empty when a >= b *)
IndexRange(a, b) == [k \in 1..(b - a) |-> a + k - 1]

(* the indices the render loop visits on page `page` *)
PageIndices(page, pages, n, items_per_page) ==
    LET end_index == IF page = pages THEN n ELSE page * items_per_page
    IN  IF n > 0 THEN IndexRange((page - 1) * items_per_page, end_index) ELSE <<>>

(* println!("{}", items[i as usize]) for each index i in order; item i is   *)
(* identified with its index.                                              *)
PrintedItems(indices) == [k \in 1..Len(indices) |-> PrintedItem(indices[k])]

AddOverflow == "attempt to add with overflow"

(* a + b passes i32::MAX, for i32 a and b > 0 *)
AddOverflows(a, b) == b > 0 /\ a > I32Max - b

(* a.wrapping_add(b), for i32 a and b > 0 *)
WrappingAdd(a, b) == IF AddOverflows(a, b) THEN (a + I32Min) + (b + I32Min) ELSE a + b

(* (start..end).collect(): start, start + 1, .., end - 1; empty when       *)
(* start >= end.                                                           *)
CollectRange(start, end) ==
    IF start >= end THEN <<>> ELSE [k \in 1..(end - start) |-> Num(start + k - 1)]

(* Mutant of PageChoices: the range starts at 0. *)
PageChoices_FromZero(pages, overflow_checks) ==
    IF AddOverflows(pages, 1) /\ overflow_checks
    THEN [choices |-> <<>>, panic |-> Some(AddOverflow)]
    ELSE [choices |-> CollectRange(0, WrappingAdd(pages, 1)), panic |-> None]

(* (1..(number_of_pages + 1)).collect(): `number_of_pages + 1` panics when *)
(* it overflows in a build with overflow checks (debug) and wraps to       *)
(* i32::MIN in a build without (release), which leaves the range empty.    *)
PageChoices(pages, overflow_checks) ==
    IF AddOverflows(pages, 1) /\ overflow_checks
    THEN [choices |-> <<>>, panic |-> Some(AddOverflow)]
    ELSE [choices |-> CollectRange(1, WrappingAdd(pages, 1)), panic |-> None]

Unit == "()"

(* if items_per_page <= 0 { panic!(..) } *)
InvalidItemsPerPage(items_per_page) == items_per_page <= 0

(* 0..items.len(): the indices of a list of len items, in order; an index  *)
(* below 2^31 is the number itself, a larger one a usize.                  *)
RECURSIVE ListIndices(_)
ListIndices(len) ==
    IF len.r > 0
    THEN ListIndices(Usize(len.q, len.r - 1))
             \o <<IF len.q = 0 THEN len.r - 1 ELSE Usize(len.q, len.r - 1)>>
    ELSE IF len.q > 0
    THEN ListIndices(Usize(len.q - 1, I32Max))
             \o <<IF len.q = 1 THEN I32Max ELSE Usize(len.q - 1, I32Max)>>
    ELSE <<>>

(* clear_terminal *)
ClearTerminalCall ==
    /\ op = "clear_terminal"
    /\ pc = "call"
    /\ out' = out \o <<PrintedClear>>
    /\ pc' = "returned"
    /\ ret' = Some(Unit)
    /\ UNCHANGED <<op, args, current_page, number_of_pages, quit, input, reads,
                   last_read, panic>>

(* print_list: the header, then every item in order. *)
PrintListCall ==
    /\ op = "print_list"
    /\ pc = "call"
    /\ out' = out \o print_prompt(args.header_message)
                  \o PrintedItems(ListIndices(args.len))
    /\ pc' = "returned"
    /\ ret' = Some(Unit)
    /\ UNCHANGED <<op, args, current_page, number_of_pages, quit, input, reads,
                   last_read, panic>>

(* Mutant of PaginatedListCall: the header is printed before the check. *)
PaginatedListCall_CheckAfterHeader ==
    /\ op = "paginated_list"
    /\ pc = "call"
    /\ out' = out \o print_prompt(args.header_message)
    /\ IF InvalidItemsPerPage(args.items_per_page)
       THEN /\ panic' = Some(ItemsPerPagePanic)
            /\ pc' = "panicked"
            /\ UNCHANGED <<current_page, number_of_pages, quit>>
       ELSE /\ quit' = FALSE
            /\ current_page' = 1
            /\ number_of_pages' = PageCount(number_of_items, args.items_per_page)
            /\ pc' = "render"
            /\ UNCHANGED panic
    /\ UNCHANGED <<op, args, input, reads, last_read, ret>>

PaginatedListCall ==
    /\ op = "paginated_list"
    /\ pc = "call"
    /\ IF InvalidItemsPerPage(args.items_per_page)
       THEN /\ panic' = Some(ItemsPerPagePanic)
            /\ pc' = "panicked"
            /\ UNCHANGED <<current_page, number_of_pages, quit, out>>
       ELSE /\ quit' = FALSE
            /\ current_page' = 1
            /\ number_of_pages' = PageCount(number_of_items, args.items_per_page)
            /\ pc' = "render"
            /\ UNCHANGED <<panic, out>>
    /\ UNCHANGED <<op, args, input, reads, last_read, ret>>

(* The top of one loop iteration: header, the page's items, the page       *)
(* indicator, then the call of select_string_from_choices up to its first  *)
(* read_line.                                                              *)
Render ==
    /\ op = "paginated_list"
    /\ pc = "render"
    /\ LET indices == PageIndices(current_page, number_of_pages, number_of_items,
                                  args.items_per_page)
           bad == {k \in 1..Len(indices) : ~IndexInBounds(indices[k], args.len)}
           shown == IF bad = {} THEN Len(indices)
                    ELSE (CHOOSE k \in bad : \A j \in bad : k <= j) - 1
           items == PrintedItems(SubSeq(indices, 1, shown))
       IN  IF bad /= {}
           THEN /\ out' = out \o print_prompt(args.header_message) \o items
                /\ panic' = Some("index out of bounds")
                /\ pc' = "panicked"
                /\ UNCHANGED input
           ELSE /\ out' = out \o print_prompt(args.header_message) \o items
                            \o <<PrintedPage(current_page, number_of_pages)>>
                            \o print_prompt(Some(NavigatorPrompt))
                /\ input' = <<>>
                /\ pc' = "cmd_read"
                /\ UNCHANGED panic
    /\ UNCHANGED <<op, args, current_page, number_of_pages, quit, reads, last_read, ret>>

(* Mutant of ArmN: the increment without the test against the last page. *)
ArmN_Unclamped(page, pages) == page + 1

(* The "n" arm: the page after a next command. *)
ArmN(page, pages) == IF page < pages THEN page + 1 ELSE page

(* The "p" arm: the page after a previous command. *)
ArmP(page) == IF page > 1 THEN page - 1 ELSE page

(* Mutant of QuitOn: the "e" arm leaves quit unset. *)
QuitOn_Never(cmd) == FALSE

(* The "e" arm sets quit, which ends the `while !quit` loop. *)
QuitOn(cmd) == cmd = <<"e">>

(* The rest of the loop body once a command was accepted: the match on the *)
(* lowercased command and the clear.  The S arm calls                      *)
(* select_number_from_choices, which runs up to its first read_line with a *)
(* fresh `input`.                                                          *)
Command(user_input) ==
    LET cmd == ToLowercase(user_input)
        cleared == IF args.clear_on_update THEN <<PrintedClear>> ELSE <<>>
        pages == PageChoices(number_of_pages, args.overflow_checks)
    IN  IF cmd = <<"s">>
        THEN IF IsSome(pages.panic) \/ Len(pages.choices) = 0
             THEN /\ panic' = IF IsSome(pages.panic) THEN pages.panic
                              ELSE Some(EmptyNumberChoices)
                  /\ pc' = "panicked"
                  /\ UNCHANGED <<current_page, quit, input, out, ret>>
             ELSE /\ out' = out \o print_prompt(Some(PagePrompt))
                  /\ input' = <<>>
                  /\ pc' = "page_read"
                  /\ UNCHANGED <<current_page, quit, ret, panic>>
        ELSE /\ current_page' =
                    IF cmd = <<"n">> THEN ArmN(current_page, number_of_pages)
                    ELSE IF cmd = <<"p">> THEN ArmP(current_page)
                    ELSE current_page
             /\ quit' = QuitOn(cmd)
             /\ out' = out \o cleared
             /\ UNCHANGED input
             /\ pc' = IF quit' THEN "returned" ELSE "render"
             /\ ret' = IF quit' THEN Some(Unit) ELSE ret
             /\ UNCHANGED panic

(* Mutant of CommandRead: a rejected line makes the list render again. *)
CommandRead_RendersOnReject ==
    /\ op = "paginated_list"
    /\ pc = "cmd_read"
    /\ reads < MaxReads
    /\ reads' = reads + 1
    /\ \E r \in ReadOutcomes(NavigatorLines) :
        /\ last_read' = Some(r)
        /\ IF r.kind = "err"
          THEN /\ panic' = Some(StdinPanic)
               /\ pc' = "panicked"
               /\ UNCHANGED <<current_page, quit, input, out, ret>>
          ELSE LET it == select_string_iteration(input, r, Some(NavigatorPrompt),
                                                 NavigatorChoices, FALSE, TRUE)
               IN  IF it.done
                   THEN Command(it.value)
                   ELSE /\ out' = out \o it.out
                        /\ input' = it.input
                        /\ pc' = "render"
                        /\ UNCHANGED <<current_page, quit, ret, panic>>
    /\ UNCHANGED <<op, args, number_of_pages>>

(* One iteration of the command prompt loop, and on an accepted command    *)
(* the rest of the navigator's loop body.                                  *)
CommandRead ==
    /\ op = "paginated_list"
    /\ pc = "cmd_read"
    /\ reads < MaxReads
    /\ reads' = reads + 1
    /\ \E r \in ReadOutcomes(NavigatorLines) :
        /\ last_read' = Some(r)
        /\ IF r.kind = "err"
          THEN /\ panic' = Some(StdinPanic)
               /\ pc' = "panicked"
               /\ UNCHANGED <<current_page, quit, input, out, ret>>
          ELSE LET it == select_string_iteration(input, r, Some(NavigatorPrompt),
                                                 NavigatorChoices, FALSE, TRUE)
               IN  IF it.done
                   THEN Command(it.value)
                   ELSE /\ out' = out \o it.out
                        /\ input' = it.input
                        /\ UNCHANGED <<current_page, quit, pc, ret, panic>>
    /\ UNCHANGED <<op, args, number_of_pages>>

(* One iteration of the page-number prompt loop (the S command), and on an *)
(* accepted page the assignment and the clear.                             *)
PageRead ==
    /\ op = "paginated_list"
    /\ pc = "page_read"
    /\ reads < MaxReads
    /\ reads' = reads + 1
    /\ \E r \in ReadOutcomes(NavigatorLines) :
        /\ last_read' = Some(r)
        /\ IF r.kind = "err"
          THEN /\ panic' = Some(StdinPanic)
               /\ pc' = "panicked"
               /\ UNCHANGED <<current_page, input, out>>
          ELSE LET it == select_number_iteration("i32", input, r, Some(PagePrompt),
                                                 PageChoices(number_of_pages,
                                                     args.overflow_checks).choices,
                                                 FALSE)
               IN  /\ input' = it.input
                   /\ UNCHANGED panic
                   /\ IF it.done
                      THEN /\ current_page' = it.value.v
                           /\ out' = out \o (IF args.clear_on_update
                                             THEN <<PrintedClear>> ELSE <<>>)
                           /\ pc' = "render"
                      ELSE /\ out' = out \o it.out
                           /\ UNCHANGED <<current_page, pc>>
    /\ UNCHANGED <<op, args, number_of_pages, quit, ret>>

-----------------------------------------------------------------------------
(* The calls explored. *)

Prompts == {None, Some("prompt")}
RepeatMessages == {None, Some("repeat")}

ItemLengths ==
    {Usize(0, k) : k \in 0..MaxItems} \cup {Usize(1, 0), Usize(2, 3)}

(* The only arithmetic of paginated_list that can overflow is              *)
(* `number_of_pages + 1`, with i32::MAX items shown one per page: the two  *)
(* builds are explored there, and one stands for both elsewhere.           *)
PaginatedListArgs ==
    [header_message : {None, Some("header")},
     len : ItemLengths,
     items_per_page : (-1)..MaxPerPage,
     clear_on_update : BOOLEAN,
     overflow_checks : {FALSE}]
    \cup
    [header_message : {None, Some("header")},
     len : {Usize(0, I32Max)},
     items_per_page : {1},
     clear_on_update : BOOLEAN,
     overflow_checks : BOOLEAN]

PrintListArgs ==
    [header_message : {None, Some("header")},
     len : {Usize(0, k) : k \in 0..MaxItems}]

InitLocals ==
    /\ pc = "call"
    /\ current_page = 0
    /\ number_of_pages = 0
    /\ quit = FALSE
    /\ input = <<>>
    /\ out = <<>>
    /\ reads = 0
    /\ last_read = None
    /\ ret = None
    /\ panic = None

InitPage ==
    /\ op = "paginated_list"
    /\ args \in PaginatedListArgs
    /\ InitLocals

NextPage ==
    \/ PaginatedListCall
    \/ Render
    \/ CommandRead
    \/ PageRead

SpecPage == InitPage /\ [][NextPage]_vars

-----------------------------------------------------------------------------
(* The acquisition operations called on their own. *)

(* Mutant of PromptLoopStep: a read error is treated as a rejected attempt. *)
PromptLoopStep_RetriesOnError(r, it) ==
    IF r.kind = "err"
    THEN /\ input' = <<>>
         /\ out' = out \o print_prompt(args.repeat_message)
         /\ pc' = "read"
         /\ UNCHANGED <<ret, panic>>
    ELSE /\ input' = it.input
         /\ out' = out \o it.out
         /\ ret' = IF it.done THEN Some(it.value) ELSE ret
         /\ pc' = IF IsSome(it.panic) THEN "panicked"
                  ELSE IF it.done THEN "returned" ELSE "read"
         /\ panic' = it.panic

(* What every prompt loop does with a read outcome: panic on an error,     *)
(* otherwise return, go round again or panic as the iteration `it` says.   *)
PromptLoopStep(r, it) ==
    IF r.kind = "err"
    THEN /\ panic' = Some(StdinPanic)
         /\ pc' = "panicked"
         /\ UNCHANGED <<input, out, ret>>
    ELSE /\ input' = it.input
         /\ out' = out \o it.out
         /\ ret' = IF it.done THEN Some(it.value) ELSE ret
         /\ pc' = IF IsSome(it.panic) THEN "panicked"
                  ELSE IF it.done THEN "returned" ELSE "read"
         /\ panic' = it.panic

(* print_prompt(prompt); let mut input = String::new(); *)
EnterLoop ==
    /\ out' = out \o print_prompt(args.prompt)
    /\ input' = <<>>
    /\ pc' = "read"
    /\ UNCHANGED panic

(* Mutant of FailFast: the prompt is printed before the check. *)
FailFast_AfterPrompt(message) ==
    /\ panic' = Some(message)
    /\ pc' = "panicked"
    /\ out' = out \o print_prompt(args.prompt)
    /\ UNCHANGED input

(* panic!(..) on an empty choices vector, before anything else *)
FailFast(message) ==
    /\ panic' = Some(message)
    /\ pc' = "panicked"
    /\ UNCHANGED <<input, out>>

Unused == <<op, args, current_page, number_of_pages, quit>>

GetStringCall ==
    /\ op = "get_string"
    /\ pc = "call"
    /\ EnterLoop
    /\ UNCHANGED <<Unused, reads, last_read, ret>>

GetStringRead ==
    /\ op = "get_string"
    /\ pc = "read"
    /\ reads < MaxReads
    /\ reads' = reads + 1
    /\ \E r \in ReadOutcomes(AcquisitionLines) :
        /\ last_read' = Some(r)
        /\ PromptLoopStep(r, get_string_iteration(input, r, args.repeat_message,
                                                 args.max_length, args.can_be_empty,
                                                 args.overflow_checks))
    /\ UNCHANGED Unused

GetNumberCall ==
    /\ op = "get_number"
    /\ pc = "call"
    /\ EnterLoop
    /\ UNCHANGED <<Unused, reads, last_read, ret>>

GetNumberRead ==
    /\ op = "get_number"
    /\ pc = "read"
    /\ reads < MaxReads
    /\ reads' = reads + 1
    /\ \E r \in ReadOutcomes(AcquisitionLines) :
        /\ last_read' = Some(r)
        /\ PromptLoopStep(r, get_number_iteration(args.T, input, r, args.repeat_message,
                                                 args.min_value, args.max_value))
    /\ UNCHANGED Unused

SelectNumberCall ==
    /\ op = "select_number_from_choices"
    /\ pc = "call"
    /\ IF Len(args.choices) = 0 THEN FailFast(EmptyNumberChoices) ELSE EnterLoop
    /\ UNCHANGED <<Unused, reads, last_read, ret>>

SelectNumberRead ==
    /\ op = "select_number_from_choices"
    /\ pc = "read"
    /\ reads < MaxReads
    /\ reads' = reads + 1
    /\ \E r \in ReadOutcomes(AcquisitionLines) :
        /\ last_read' = Some(r)
        /\ PromptLoopStep(r, select_number_iteration(args.T, input, r, args.repeat_message,
                                                    args.choices,
                                                    args.show_choices_on_failure))
    /\ UNCHANGED Unused

SelectStringCall ==
    /\ op = "select_string_from_choices"
    /\ pc = "call"
    /\ IF Len(args.choices) = 0 THEN FailFast(EmptyStringChoices) ELSE EnterLoop
    /\ UNCHANGED <<Unused, reads, last_read, ret>>

SelectStringRead ==
    /\ op = "select_string_from_choices"
    /\ pc = "read"
    /\ reads < MaxReads
    /\ reads' = reads + 1
    /\ \E r \in ReadOutcomes(AcquisitionLines) :
        /\ last_read' = Some(r)
        /\ PromptLoopStep(r, select_string_iteration(input, r, args.repeat_message,
                                                    args.choices, args.case_sensitive,
                                                    args.show_choices_on_failure))
    /\ UNCHANGED Unused

GetStringArgs ==
    [prompt : Prompts, repeat_message : RepeatMessages,
     max_length : {None, Some(I32Min), Some(-1), Some(0), Some(2)},
     can_be_empty : BOOLEAN, overflow_checks : BOOLEAN]

GetNumberArgs ==
    UNION {[T : {T}, prompt : Prompts, repeat_message : RepeatMessages,
            min_value : {None, Some(Val(T, -3)), Some(Val(T, 2))},
            max_value : {None, Some(Val(T, 2)), Some(Val(T, 5))}] : T \in NumTypes}

SelectNumberArgs ==
    UNION {[T : {T}, prompt : Prompts, repeat_message : RepeatMessages,
            choices : {<<>>, <<Val(T, 5)>>, <<Val(T, 2), Val(T, -3), Val(T, 2)>>},
            show_choices_on_failure : BOOLEAN] : T \in NumTypes}

SelectStringArgs ==
    [prompt : Prompts, repeat_message : RepeatMessages,
     choices : {<<>>, <<<<"A", "x">>, <<"Α", "Σ">>>>, <<<<"5">>, <<"a", "x">>>>},
     case_sensitive : BOOLEAN, show_choices_on_failure : BOOLEAN]

InitAcquire ==
    /\ \/ op = "get_string" /\ args \in GetStringArgs
       \/ op = "get_number" /\ args \in GetNumberArgs
       \/ op = "select_number_from_choices" /\ args \in SelectNumberArgs
       \/ op = "select_string_from_choices" /\ args \in SelectStringArgs
    /\ InitLocals

NextAcquire ==
    \/ GetStringCall
    \/ GetStringRead
    \/ GetNumberCall
    \/ GetNumberRead
    \/ SelectNumberCall
    \/ SelectNumberRead
    \/ SelectStringCall
    \/ SelectStringRead

SpecAcquire == InitAcquire /\ [][NextAcquire]_vars

-----------------------------------------------------------------------------
(* The validators called on their own, as the unit tests call them: the    *)
(* result is left in ret and what was printed in out.                      *)

(* Mutant of CheckMinMaxCall: a value equal to a bound is rejected too. *)
CheckMinMaxCall_Exclusive ==
    /\ op = "check_min_max"
    /\ pc = "call"
    /\ LET c == check_min_max(args.number, args.min_value, args.max_value)
           at_bound == \/ IsSome(args.min_value) /\ NumEq(args.number, Unwrap(args.min_value))
                       \/ IsSome(args.max_value) /\ NumEq(args.number, Unwrap(args.max_value))
       IN  /\ ret' = Some(c.ok /\ ~at_bound)
           /\ out' = out \o c.out
    /\ pc' = "returned"
    /\ UNCHANGED <<op, args, current_page, number_of_pages, quit, input, reads, last_read, panic>>

CheckMinMaxCall ==
    /\ op = "check_min_max"
    /\ pc = "call"
    /\ LET c == check_min_max(args.number, args.min_value, args.max_value)
       IN  /\ ret' = Some(c.ok)
           /\ out' = out \o c.out
    /\ pc' = "returned"
    /\ UNCHANGED <<op, args, current_page, number_of_pages, quit, input, reads, last_read, panic>>

CheckLengthCall ==
    /\ op = "check_length"
    /\ pc = "call"
    /\ LET c == check_length(args.length, args.max_length, args.overflow_checks)
       IN  /\ ret' = IF IsSome(c.panic) THEN None ELSE Some(c.ok)
           /\ out' = out \o c.out
           /\ panic' = c.panic
           /\ pc' = IF IsSome(c.panic) THEN "panicked" ELSE "returned"
    /\ UNCHANGED <<op, args, current_page, number_of_pages, quit, input, reads, last_read>>

(* The values of the type T given to check_min_max. *)
NumberValues(T) ==
    {Val(T, n) : n \in (-4)..MaxValue}
        \cup (IF T = "f32" THEN {NaN, Infinity(FALSE), Infinity(TRUE), F32Bits(TRUE, 0)}
              ELSE {})

CheckMinMaxArgs ==
    UNION {[number : NumberValues(T),
            min_value : {None, Some(Val(T, -3)), Some(Val(T, 2)), Some(Val(T, 5))},
            max_value : {None, Some(Val(T, 2)), Some(Val(T, 5))}] : T \in {"i32", "f32"}}

(* Lengths below and past the i32 range. *)
Lengths ==
    {Usize(0, k) : k \in 0..MaxLength} \cup {Usize(1, 0), Usize(1, 5), Usize(2, 3)}

(* The limits, among them i32::MIN, where `input_length - max` overflows. *)
CheckLengthArgs ==
    [length : Lengths,
     max_length : {None, Some(I32Min), Some(-1), Some(0), Some(2), Some(5)},
     overflow_checks : BOOLEAN]

InitValidators ==
    /\ \/ op = "check_min_max" /\ args \in CheckMinMaxArgs
       \/ op = "check_length" /\ args \in CheckLengthArgs
    /\ InitLocals

NextValidators ==
    \/ CheckMinMaxCall
    \/ CheckLengthCall

SpecValidators == InitValidators /\ [][NextValidators]_vars

InitList ==
    /\ \/ op = "print_list" /\ args \in PrintListArgs
       \/ op = "clear_terminal" /\ args = <<>>
    /\ InitLocals

NextList ==
    \/ PrintListCall
    \/ ClearTerminalCall

SpecList == InitList /\ [][NextList]_vars

Init == InitPage \/ InitAcquire \/ InitValidators \/ InitList

Next == NextPage \/ NextAcquire \/ NextValidators \/ NextList

Spec == Init /\ [][Next]_vars

-----------------------------------------------------------------------------
(* Properties. *)

(* Comparisons of a usize length with a small non-negative integer. *)
LenAtLeast(len, x) == len.q > 0 \/ len.r >= x
LenAtMost(len, x) == len.q = 0 /\ len.r <= x

(* The navigator is past its precondition check and has not panicked. *)
InNavigator ==
    op = "paginated_list" /\ pc \in {"render", "cmd_read", "page_read", "returned"}

(* The text of the latest line read, trimmed. *)
LastLine == Trim(Unwrap(last_read).text)

(* The latest printed event. *)
LastPrinted == out[Len(out)]

(* The page shown by the latest page indicator. *)
LastShownPage ==
    LET shown == {k \in 1..Len(out) : out[k].tag = "page"}
    IN  out[CHOOSE k \in shown : \A j \in shown : j <= k].page

(* C1: in paginated_list the current page satisfies                        *)
(* 1 <= current_page <= total_pages in every state of the navigator, for   *)
(* every item list.                                                        *)
C1_PageWithinRange ==
    InNavigator => 1 <= current_page /\ current_page <= number_of_pages

(* t = max(1, ceil(len / items_per_page)) for the list's length len *)
IsCeilingPageCount(t, len, items_per_page) ==
    /\ t >= 1
    /\ LenAtMost(len, 0) => t = 1
    /\ LenAtLeast(len, 1) =>
          /\ LenAtLeast(len, (t - 1) * items_per_page + 1)
          /\ LenAtMost(len, t * items_per_page)

(* C5: for every item count n >= 0 and every items_per_page > 0 the total  *)
(* page count used by paginated_list is max(1, ceil(n / items_per_page)).  *)
C5_PageCountIsCeiling ==
    InNavigator => IsCeilingPageCount(number_of_pages, args.len, args.items_per_page)

(* The same two statements for lists of fewer than 2^31 items, where       *)
(* items.len() as i32 is the length.                                       *)
PageWithinRangeBelowI32 == args.len.q = 0 => C1_PageWithinRange
PageCountIsCeilingBelowI32 == args.len.q = 0 => C5_PageCountIsCeiling

(* This step reads a line (not an error) at the navigator's prompt `at`. *)
ReadsLineAt(at) ==
    /\ op = "paginated_list"
    /\ pc = at
    /\ reads' = reads + 1
    /\ Unwrap(last_read').kind /= "err"

(* The line this step read, trimmed. *)
LineRead == Trim(Unwrap(last_read').text)

(* This step accepts the command cmd (a lowercase letter) in either case. *)
AcceptsCommand(cmd) == ReadsLineAt("cmd_read") /\ ToLowercase(LineRead) = cmd

(* C2: an accepted N command, in either letter case, increases the current *)
(* page by exactly one below the last page and leaves it unchanged on the  *)
(* last page; an accepted P command decreases it by exactly one above page *)
(* 1 and leaves it unchanged on page 1.                                    *)
C2_NextAndPreviousClamp ==
    [][ /\ AcceptsCommand(<<"n">>) =>
             /\ current_page < number_of_pages => current_page' = current_page + 1
             /\ current_page = number_of_pages => current_page' = current_page
        /\ AcceptsCommand(<<"p">>) =>
             /\ current_page > 1 => current_page' = current_page - 1
             /\ current_page = 1 => current_page' = current_page ]_vars

(* N was typed in upper case on the last of several pages, after an        *)
(* earlier command, and the page stayed.                                   *)
C2_Witness ==
    /\ op = "paginated_list" /\ pc = "render" /\ reads >= 2
    /\ LastLine = <<"N">>
    /\ number_of_pages >= 2
    /\ LastShownPage = number_of_pages
    /\ current_page = number_of_pages

(* C3: an accepted S command leaves the page as it is and asks for a page  *)
(* number; at that prompt only a line that parses to an integer k with     *)
(* 1 <= k <= total_pages ends the prompt, and it sets the current page to  *)
(* exactly k; any other line leaves the current page unchanged and the     *)
(* prompt asks again.                                                      *)
C3_SpecificPage ==
    [][ /\ AcceptsCommand(<<"s">>) =>
             current_page' = current_page /\ pc' = "page_read"
        /\ ReadsLineAt("page_read") =>
             LET parsed == Parse("i32", LineRead)
                 k == parsed.v.v
             IN  IF parsed.ok /\ 1 <= k /\ k <= number_of_pages
                 THEN current_page' = k /\ pc' = "render"
                 ELSE current_page' = current_page /\ pc' = "page_read" ]_vars

(* The same where the page count is positive and below i32::MAX, so that   *)
(* the range of pages 1..(number_of_pages + 1) is not empty and its end    *)
(* does not overflow.                                                      *)
SpecificPageBelowI32Max ==
    [][ /\ AcceptsCommand(<<"s">>) /\ 1 <= number_of_pages /\ number_of_pages < I32Max =>
             current_page' = current_page /\ pc' = "page_read"
        /\ ReadsLineAt("page_read") =>
             LET parsed == Parse("i32", LineRead)
                 k == parsed.v.v
             IN  IF parsed.ok /\ 1 <= k /\ k <= number_of_pages
                 THEN current_page' = k /\ pc' = "render"
                 ELSE current_page' = current_page /\ pc' = "page_read" ]_vars

(* After S, a rejected line and then "2", the navigator is about to render *)
(* page 2, having shown another page before.                               *)
C3_Witness ==
    /\ op = "paginated_list" /\ pc = "render" /\ reads = 3
    /\ LastLine = <<"2">>
    /\ LastPrinted.tag \in {"prompt", "clear"}
    /\ \E k \in 1..Len(out) : out[k].tag \in {"invalid_value", "not_a_valid_choice"}
    /\ LastShownPage = 1
    /\ current_page = 2

(* What a step printed. *)
PrintedBy(events) == out' = out \o events

(* C4: paginated_list returns only by an accepted E command, and then at   *)
(* once: without rendering the list or prompting again.  No other command  *)
(* and no rejected line makes it return.                                   *)
C4_ReturnsOnlyOnExit ==
    [][ /\ op = "paginated_list" /\ pc' = "returned" /\ pc /= "returned" =>
             AcceptsCommand(<<"e">>)
        /\ AcceptsCommand(<<"e">>) =>
             /\ pc' = "returned"
             /\ PrintedBy(<<>>) \/ PrintedBy(<<PrintedClear>>)
             /\ current_page' = current_page
        /\ op = "paginated_list" /\ pc = "returned" => UNCHANGED vars ]_vars

(* The navigator returned on E after two other commands. *)
C4_Witness ==
    /\ op = "paginated_list" /\ pc = "returned" /\ reads = 3
    /\ ToLowercase(LastLine) = <<"e">>
    /\ quit
    /\ ret = Some(Unit)

(* min(x, len) for a usize length len and a small integer x *)
MinWithLength(x, len) == IF LenAtLeast(len, x) THEN x ELSE len.r

(* C6: every render prints, in order, exactly the items with index in      *)
(* [(page-1)*items_per_page, min(page*items_per_page, item_count)) and     *)
(* then the indicator (Page page of total_pages), and never indexes        *)
(* outside the list.                                                       *)
C6_RenderPrintsPageSlice ==
    [][ op = "paginated_list" /\ pc = "render" =>
          LET first == (current_page - 1) * args.items_per_page
              last == MinWithLength(current_page * args.items_per_page, args.len)
          IN  /\ pc' = "cmd_read"
              /\ PrintedBy(print_prompt(args.header_message)
                           \o [k \in 1..(last - first) |-> PrintedItem(first + k - 1)]
                           \o <<PrintedPage(current_page, number_of_pages)>>
                           \o print_prompt(Some(NavigatorPrompt))) ]_vars

(* C7: select_number_from_choices and select_string_from_choices called    *)
(* with an empty choice sequence panic at once: nothing was printed, no    *)
(* line was read, nothing is returned, and the call goes no further.       *)
C7_EmptyChoicesFailFast ==
    /\ op = "select_number_from_choices" /\ Len(args.choices) = 0 /\ pc /= "call" =>
          /\ pc = "panicked" /\ panic = Some(EmptyNumberChoices)
          /\ out = <<>> /\ reads = 0 /\ ret = None
    /\ op = "select_string_from_choices" /\ Len(args.choices) = 0 /\ pc /= "call" =>
          /\ pc = "panicked" /\ panic = Some(EmptyStringChoices)
          /\ out = <<>> /\ reads = 0 /\ ret = None

(* A selection with a prompt to print and no choices has panicked. *)
C7_Witness ==
    /\ op = "select_string_from_choices"
    /\ Len(args.choices) = 0
    /\ IsSome(args.prompt)
    /\ pc = "panicked"

(* C8: paginated_list called with items_per_page <= 0 panics with the      *)
(* configuration error before printing the header or any item and before   *)
(* reading any input.                                                      *)
C8_ItemsPerPageFailFast ==
    op = "paginated_list" /\ args.items_per_page <= 0 /\ pc /= "call" =>
        /\ pc = "panicked" /\ panic = Some(ItemsPerPagePanic)
        /\ out = <<>> /\ reads = 0 /\ ret = None

(* A non-empty list with a header and items_per_page = 0 has panicked. *)
C8_Witness ==
    /\ op = "paginated_list"
    /\ args.items_per_page = 0
    /\ IsSome(args.header_message)
    /\ LenAtLeast(args.len, 1)
    /\ pc = "panicked"

(* C9: in every acquisition operation a read that fails, by an error of    *)
(* the stream or by the stream being closed (end of file), panics at once  *)
(* with the stdin error: the step prints nothing (no retry message),       *)
(* returns nothing, and after the panic no further line is read.           *)
C9_ReadErrorAborts ==
    [][ /\ reads' = reads + 1 /\ Unwrap(last_read').kind \in {"err", "eof"} =>
             /\ pc' = "panicked" /\ panic' = Some(StdinPanic)
             /\ out' = out
             /\ ret' = None
        /\ pc = "panicked" => UNCHANGED vars ]_vars

(* What holds: a read that returns Err aborts so.  At the end of file      *)
(* read_line returns Ok(0), which the loops take as an empty line.         *)
ReadErrResultAborts ==
    [][ /\ reads' = reads + 1 /\ Unwrap(last_read').kind = "err" =>
             /\ pc' = "panicked" /\ panic' = Some(StdinPanic)
             /\ out' = out
             /\ ret' = None
        /\ pc = "panicked" => UNCHANGED vars ]_vars

(* get_number, with a retry message to print, panicked on a read error     *)
(* after a rejected line.                                                  *)
C9_Witness ==
    /\ op = "get_number"
    /\ IsSome(args.repeat_message)
    /\ pc = "panicked" /\ panic = Some(StdinPanic)
    /\ reads >= 2
    /\ Unwrap(last_read).kind = "err"

NumGe(a, b) == ~a.nan /\ ~b.nan /\ a.v >= b.v
NumLe(a, b) == ~a.nan /\ ~b.nan /\ a.v <= b.v

(* C10: a value v returned by get_number is the numeric parse of the       *)
(* trimmed line just read, with v >= min when min is present and v <= max  *)
(* when max is present.                                                    *)
C10_ReturnedNumberInRange ==
    op = "get_number" /\ pc = "returned" =>
        LET v == Unwrap(ret)
            parsed == Parse(args.T, LastLine)
        IN  /\ parsed.ok /\ v = parsed.v
            /\ IsSome(args.min_value) => NumGe(v, Unwrap(args.min_value))
            /\ IsSome(args.max_value) => NumLe(v, Unwrap(args.max_value))

(* The same statement for the integer types. *)
ReturnedIntegerInRange ==
    op = "get_number" /\ args.T /= "f32" => C10_ReturnedNumberInRange

(* The render statement of C6 for lists of fewer than 2^31 items. *)
RenderPrintsPageSliceBelowI32 ==
    [][args.len.q = 0 =>
          (op = "paginated_list" /\ pc = "render" =>
              LET first == (current_page - 1) * args.items_per_page
                  last == MinWithLength(current_page * args.items_per_page, args.len)
              IN  /\ pc' = "cmd_read"
                  /\ PrintedBy(print_prompt(args.header_message)
                               \o [k \in 1..(last - first) |-> PrintedItem(first + k - 1)]
                               \o <<PrintedPage(current_page, number_of_pages)>>
                               \o print_prompt(Some(NavigatorPrompt))))]_vars

-----------------------------------------------------------------------------
(* get_string and the validators. *)

(* The text s has at most m characters. *)
CharCountAtMost(s, m) == (\A i \in 1..Len(s) : s[i] /= Block) /\ Len(s) <= m

(* This step of an acquisition operation reads a line (not an error). *)
ReadsLine(operation) ==
    /\ op = operation
    /\ pc = "read"
    /\ reads' = reads + 1
    /\ Unwrap(last_read').kind /= "err"

(* The events this step printed. *)
StepOutput == SubSeq(out', Len(out) + 1, Len(out'))

HasTag(events, tag) == \E k \in 1..Len(events) : events[k].tag = tag

(* A string returned by get_string is the trimmed line, within the limit   *)
(* and non-empty unless can_be_empty.                                      *)
ReturnedStringValid ==
    op = "get_string" /\ pc = "returned" =>
        LET s == Unwrap(ret)
        IN  /\ s = LastLine
            /\ IsSome(args.max_length) => CharCountAtMost(s, Unwrap(args.max_length))
            /\ ~args.can_be_empty => s /= <<>>

(* A line over the limit is rejected by the length check alone: the        *)
(* emptiness diagnostic is not printed for it.                             *)
LengthCheckedFirst ==
    ReadsLine("get_string") /\ IsSome(args.max_length)
        /\ ~CharCountAtMost(LineRead, Unwrap(args.max_length)) =>
            /\ pc' = "read"
            /\ HasTag(StepOutput, "too_long")
            /\ ~HasTag(StepOutput, "cannot_be_empty")

(* C11: whenever get_string returns s, s is an input line with leading and *)
(* trailing whitespace removed, of length <= max_length when max_length is *)
(* present, and non-empty unless can_be_empty; the length check runs       *)
(* before the emptiness check.                                             *)
C11_ReturnedStringValid == []ReturnedStringValid /\ [][LengthCheckedFirst]_vars

(* The same statement for lines shorter than 2^31 bytes, an attempt that   *)
(* ends in the subtraction overflow panic of check_length apart.           *)
ShortLine(text) == \A i \in 1..Len(text) : text[i] /= Block
ReturnedStringValidBelowI32 ==
    /\ [](reads > 0 /\ ShortLine(Unwrap(last_read).text) => ReturnedStringValid)
    /\ [][reads' = reads + 1 /\ ShortLine(Unwrap(last_read').text)
              /\ panic' /= Some(SubtractOverflow) => LengthCheckedFirst]_vars

-----------------------------------------------------------------------------
(* select_string_from_choices. *)

(* The upper and lower case forms of the letters in use. *)
CasePairs ==
    { {"a", "A"}, {"e", "E"}, {"n", "N"}, {"p", "P"}, {"s", "S"}, {"x", "X"},
      {"α", "Α"}, {"σ", "Σ"}, {"ς", "Σ"} }

SameLetter(c, d) == c = d \/ {c, d} \in CasePairs

(* The texts a and b are equal ignoring letter case. *)
EqualsIgnoringCase(a, b) ==
    Len(a) = Len(b) /\ \A i \in 1..Len(a) : SameLetter(a[i], b[i])

(* C12: select_string_from_choices accepts a trimmed line iff it equals    *)
(* some choice exactly or, when case_sensitive is false, ignoring letter   *)
(* case (so with case_sensitive true a line that differs from every choice *)
(* only in case is rejected); it returns the trimmed line as typed.        *)
C12_StringChoiceMembership ==
    [][ ReadsLine("select_string_from_choices") =>
          LET member ==
                  \E i \in 1..Len(args.choices) :
                      \/ LineRead = args.choices[i]
                      \/ ~args.case_sensitive /\ EqualsIgnoringCase(LineRead, args.choices[i])
          IN  IF member
              THEN pc' = "returned" /\ ret' = Some(LineRead)
              ELSE pc' = "read" /\ ret' = None ]_vars

(* The same for lines without a small sigma: to_lowercase turns a capital  *)
(* sigma that ends a word into the final form, which a typed medial sigma  *)
(* does not equal.                                                         *)
StringChoiceMembershipWithoutSigma ==
    [][ ReadsLine("select_string_from_choices")
            /\ (\A k \in 1..Len(LineRead) : LineRead[k] /= "σ") =>
          LET member ==
                  \E i \in 1..Len(args.choices) :
                      \/ LineRead = args.choices[i]
                      \/ ~args.case_sensitive /\ EqualsIgnoringCase(LineRead, args.choices[i])
          IN  IF member
              THEN pc' = "returned" /\ ret' = Some(LineRead)
              ELSE pc' = "read" /\ ret' = None ]_vars

(* "AX" was returned as typed for the choice "ax", case-insensitively,     *)
(* after a rejected line.                                                  *)
C12_Witness ==
    /\ op = "select_string_from_choices" /\ pc = "returned" /\ reads >= 2
    /\ ~args.case_sensitive
    /\ ret = Some(<<"A", "X">>)
    /\ \A i \in 1..Len(args.choices) : args.choices[i] /= <<"A", "X">>

-----------------------------------------------------------------------------
(* Prompts and diagnostics of the acquisition operations. *)

IsAcquisition ==
    op \in {"get_string", "get_number", "select_number_from_choices",
            "select_string_from_choices"}

(* The call printed its prompt and entered its loop. *)
InLoop ==
    IsAcquisition /\ (pc \in {"read", "returned"} \/ reads > 0)

(* How many times the message `text` was printed. *)
TimesPrinted(text) ==
    Cardinality({k \in 1..Len(out) : out[k].tag = "prompt" /\ out[k].text = text})

(* The attempts rejected so far: every read but an accepting or failing    *)
(* last one.                                                               *)
RejectedAttempts == IF pc = "read" THEN reads ELSE reads - 1

PromptDiscipline ==
    InLoop =>
        /\ TimesPrinted("prompt") = (IF IsSome(args.prompt) THEN 1 ELSE 0)
        /\ IsSome(args.prompt) => out[1].tag = "prompt" /\ out[1].text = "prompt"
        /\ reads = 0 => out = print_prompt(args.prompt)
        /\ TimesPrinted("repeat") =
               (IF IsSome(args.repeat_message) THEN RejectedAttempts ELSE 0)
        /\ pc = "read" /\ reads > 0 /\ IsSome(args.repeat_message) =>
               LastPrinted.tag = "prompt" /\ LastPrinted.text = "repeat"

(* C13: in every acquisition operation the header prompt, when present, is *)
(* printed exactly once, before the first read; the retry message, when    *)
(* present, exactly once after each rejected attempt, before the next      *)
(* read; an absent prompt or retry message prints nothing; and nothing is  *)
(* printed at or after the accepted attempt.                               *)
C13_PromptDiscipline ==
    /\ []PromptDiscipline
    /\ [][IsAcquisition /\ pc' = "returned" => out' = out]_vars

(* get_number returned on the third line, having printed its prompt once   *)
(* and its retry message twice.                                            *)
C13_Witness ==
    /\ op = "get_number" /\ pc = "returned" /\ reads = 3
    /\ IsSome(args.prompt) /\ IsSome(args.repeat_message)
    /\ TimesPrinted("prompt") = 1
    /\ TimesPrinted("repeat") = 2

-----------------------------------------------------------------------------
(* get_number: rejected attempts. *)

(* The diagnostic owed to a trimmed line that get_number rejects. *)
NumberDiagnostic(line) ==
    LET parsed == Parse(args.T, line)
    IN  IF ~parsed.ok THEN PrintedInvalid(args.T)
        ELSE IF IsSome(args.min_value) /\ NumLt(parsed.v, Unwrap(args.min_value))
             THEN PrintedBelowMin(parsed.v, Unwrap(args.min_value))
             ELSE PrintedAboveMax(parsed.v, Unwrap(args.max_value))

(* A trimmed line get_number has a reason to reject. *)
NumberRejectable(line) ==
    LET parsed == Parse(args.T, line)
    IN  \/ ~parsed.ok
        \/ IsSome(args.min_value) /\ NumLt(parsed.v, Unwrap(args.min_value))
        \/ IsSome(args.max_value) /\ NumGt(parsed.v, Unwrap(args.max_value))

(* C14: every attempt of get_number that does not return was owed a        *)
(* diagnostic (the line does not parse, or parses below min, or otherwise  *)
(* above max), prints exactly that one diagnostic and then the retry       *)
(* message, and goes on to the next read without a panic or a value.       *)
C14_RejectedNumberDiagnosed ==
    [][ ReadsLine("get_number") /\ pc' /= "returned" =>
            /\ NumberRejectable(LineRead)
            /\ StepOutput = <<NumberDiagnostic(LineRead)>>
                                \o print_prompt(args.repeat_message)
            /\ pc' = "read"
            /\ panic' = None
            /\ ret' = None ]_vars

(* get_number bounded on both sides rejected a line that does not parse    *)
(* and a number above max, then returned on the third line.                *)
C14_Witness ==
    /\ op = "get_number" /\ pc = "returned" /\ reads = 3
    /\ IsSome(args.min_value) /\ IsSome(args.max_value)
    /\ HasTag(out, "invalid_value")
    /\ HasTag(out, "above_max")
    /\ ~HasTag(out, "below_min")

-----------------------------------------------------------------------------
(* The validators on their own. *)

(* C15: check_min_max(v, min, max) is false exactly when min is present    *)
(* and v < min, or max is present and v > max, whichever bounds are        *)
(* present; a value equal to a bound is accepted (unless the other bound   *)
(* excludes it, which only a minimum above the maximum can do).            *)
C15_RangeCheck ==
    op = "check_min_max" /\ pc = "returned" =>
        LET v == args.number
            below == IsSome(args.min_value) /\ NumLt(v, Unwrap(args.min_value))
            above == IsSome(args.max_value) /\ NumGt(v, Unwrap(args.max_value))
        IN  /\ ret = Some(~(below \/ above))
            /\ IsSome(args.min_value) /\ v = Unwrap(args.min_value) /\ ~above
                   => ret = Some(TRUE)
            /\ IsSome(args.max_value) /\ v = Unwrap(args.max_value) /\ ~below
                   => ret = Some(TRUE)

(* check_min_max accepted a value equal to its maximum, both bounds given. *)
C15_Witness ==
    /\ op = "check_min_max" /\ pc = "returned"
    /\ IsSome(args.min_value)
    /\ args.max_value = Some(args.number)
    /\ ret = Some(TRUE)

(* C16: check_length(n, None) is true, and check_length(n, Some(m)) is     *)
(* true exactly when n <= m, for every usize n and every i32 m: every call *)
(* ends with that value.                                                   *)
C16_LengthCheck ==
    op = "check_length" /\ pc \in {"returned", "panicked"} =>
        ret = Some(\/ ~IsSome(args.max_length)
                   \/ LenAtMost(args.length, Unwrap(args.max_length)))

(* The same for lengths below 2^31, where the cast keeps the value,        *)
(* whenever check_length returns.                                          *)
LengthCheckBelowI32 ==
    op = "check_length" /\ pc = "returned" /\ args.length.q = 0 =>
        ret = Some(\/ ~IsSome(args.max_length)
                   \/ LenAtMost(args.length, Unwrap(args.max_length)))

(* C19: when check_length rejects a length n against a limit m, it prints  *)
(* one diagnostic, which reports n - m as the number of characters over    *)
(* and m as the character limit.                                           *)
C19_TooLongDiagnostic ==
    op = "check_length" /\ pc = "returned" /\ ret = Some(FALSE) =>
        /\ Len(out) = 1
        /\ out[1].tag = "too_long"
        /\ ~SubOverflows(args.length.r, Unwrap(args.max_length))
        /\ out[1].over = args.length.r - Unwrap(args.max_length)
        /\ out[1].limit.q = 0
        /\ out[1].limit.r = Unwrap(args.max_length)

(* What the diagnostic does report: the overflow as an i32, and the length *)
(* as limit.                                                               *)
TooLongDiagnosticShowsLength ==
    op = "check_length" /\ pc = "returned" /\ ret = Some(FALSE) =>
        /\ Len(out) = 1
        /\ out[1].tag = "too_long"
        /\ out[1].over = WrappingSub(AsI32(args.length), Unwrap(args.max_length))
        /\ out[1].limit = args.length

-----------------------------------------------------------------------------
(* paginated_list: clearing the terminal. *)

EndsWithClear(events) == Len(events) > 0 /\ events[Len(events)].tag = "clear"

(* A render other than the first comes right after exactly one clear when  *)
(* clear_on_update is set; the first render comes after nothing.           *)
RenderAfterClear ==
    op = "paginated_list" /\ pc = "render" /\ pc' /= "render" =>
        IF reads = 0 THEN out = <<>>
        ELSE args.clear_on_update =>
                /\ EndsWithClear(out)
                /\ ~EndsWithClear(SubSeq(out, 1, Len(out) - 1))

(* A clear is the last thing printed only when a render is about to run. *)
ClearThenRender ==
    op = "paginated_list" /\ EndsWithClear(out) => pc = "render"

NeverClearsWhenOff ==
    op = "paginated_list" /\ ~args.clear_on_update => ~HasTag(out, "clear")

(* C17: with clear_on_update, every render after the first is immediately  *)
(* preceded by exactly one clear and every clear is followed by a render;  *)
(* without it the terminal is never cleared.                               *)
C17_ClearBetweenRenders ==
    /\ [][RenderAfterClear]_vars
    /\ [](ClearThenRender /\ NeverClearsWhenOff)

(* What holds instead: a clear is followed by a render or by the return    *)
(* that an accepted E command causes.                                      *)
ClearThenRenderOrExit ==
    /\ [][RenderAfterClear]_vars
    /\ [](op = "paginated_list" /\ EndsWithClear(out) =>
              \/ pc = "render"
              \/ pc = "returned" /\ ToLowercase(LastLine) = <<"e">>)
    /\ []NeverClearsWhenOff

-----------------------------------------------------------------------------
(* The prompt loops: which line ends them. *)

(* The iteration of the running operation on the read outcome r alone,     *)
(* with nothing in `input` before the read.                                *)
IterationAlone(r) ==
    CASE op = "get_string" ->
           get_string_iteration(<<>>, r, args.repeat_message, args.max_length,
                                args.can_be_empty, args.overflow_checks)
      [] op = "get_number" ->
           get_number_iteration(args.T, <<>>, r, args.repeat_message,
                                args.min_value, args.max_value)
      [] op = "select_number_from_choices" ->
           select_number_iteration(args.T, <<>>, r, args.repeat_message,
                                   args.choices, args.show_choices_on_failure)
      [] op = "select_string_from_choices" ->
           select_string_iteration(<<>>, r, args.repeat_message, args.choices,
                                   args.case_sensitive, args.show_choices_on_failure)

(* A read that is not an error returns exactly when the line read is valid *)
(* on its own, with the value of that line; otherwise the loop reads on.   *)
ReturnsOnFirstValidLine ==
    IsAcquisition /\ pc = "read" /\ reads' = reads + 1
                  /\ Unwrap(last_read').kind /= "err" =>
        LET alone == IterationAlone(Unwrap(last_read'))
        IN  IF alone.done
            THEN pc' = "returned" /\ ret' = Some(alone.value)
            ELSE pc' = "read" /\ ret' = None

(* The same, but that an attempt may instead end in check_length's         *)
(* subtraction overflow panic.                                             *)
ReturnsOnFirstValidLineOrOverflows ==
    [][ IsAcquisition /\ pc = "read" /\ reads' = reads + 1
                      /\ Unwrap(last_read').kind /= "err" =>
            LET alone == IterationAlone(Unwrap(last_read'))
            IN  IF alone.done
                THEN pc' = "returned" /\ ret' = Some(alone.value)
                ELSE /\ ret' = None
                     /\ \/ pc' = "read"
                        \/ /\ pc' = "panicked" /\ panic' = Some(SubtractOverflow)
                           /\ op = "get_string" /\ args.overflow_checks
                           /\ args.max_length = Some(I32Min) ]_vars

(* Between reads nothing of earlier lines is held and nothing is returned; *)
(* a return follows a read.                                                *)
NothingRetained ==
    IsAcquisition =>
        /\ pc = "read" => input = <<>> /\ ret = None
        /\ pc = "returned" => reads >= 1 /\ IsSome(ret)

(* C18: an acquisition operation whose reads do not fail returns at the    *)
(* first line that is valid on its own, having read exactly the lines up   *)
(* to it, with the value of that line alone; no text of a rejected line is *)
(* kept; it reads nothing after returning and never returns otherwise.     *)
C18_ReturnsOnFirstValidLine ==
    /\ [][ReturnsOnFirstValidLine]_vars
    /\ []NothingRetained
    /\ [][IsAcquisition => pc /= "returned"]_vars

(* get_string limited to two characters rejected a long and an empty line  *)
(* and returned the third.                                                 *)
C18_Witness ==
    /\ op = "get_string" /\ pc = "returned" /\ reads = 3
    /\ args.max_length = Some(2) /\ ~args.can_be_empty
    /\ HasTag(out, "too_long") /\ HasTag(out, "cannot_be_empty")
    /\ ret = Some(<<"a", "x">>)

-----------------------------------------------------------------------------
(* paginated_list: what is rendered when. *)

(* How many printed events satisfy Is. *)
Count(Is(_)) == Cardinality({k \in 1..Len(out) : Is(out[k])})

(* Each render prints one page indicator. *)
Renders == Count(LAMBDA e : e.tag = "page")

(* Lines rejected at the command prompt: each prints a not-an-option       *)
(* diagnostic.                                                             *)
RejectedCommands == Count(LAMBDA e : e.tag = "not_an_option")

(* Lines read at the page prompt: the prompt is printed once when S is     *)
(* accepted and once more after each rejected page, so once per line read  *)
(* when no page is awaited.                                                *)
PageLines == Count(LAMBDA e : e.tag = "prompt" /\ e.text = PagePrompt)

(* The accepted commands other than E, when no page is awaited. *)
AcceptedNonExit ==
    reads - RejectedCommands - PageLines - (IF pc = "returned" THEN 1 ELSE 0)

(* The trimmed line is one of N, P, S, E in either letter case. *)
IsCommand(line) == ToLowercase(line) \in {<<"n">>, <<"p">>, <<"s">>, <<"e">>}

(* A line that is no command changes nothing and prints the diagnostic and *)
(* the command prompt only.                                                *)
RejectedLineRendersNothing ==
    ReadsLineAt("cmd_read") /\ ~IsCommand(LineRead) =>
        /\ current_page' = current_page
        /\ pc' = "cmd_read"
        /\ StepOutput = <<PrintedNotOption(LineRead, NavigatorChoices),
                          PrintedCaseSensitive(FALSE), Printed(NavigatorPrompt)>>

RenderCount ==
    op = "paginated_list" /\ pc \in {"cmd_read", "returned"} =>
        Renders = 1 + AcceptedNonExit

(* C20: a line that is none of N, P, S, E in either case leaves            *)
(* current_page unchanged and renders nothing, printing the diagnostic and *)
(* the command prompt only; the list is rendered once at the start and     *)
(* once after each accepted N, P or S command, so the renders number 1     *)
(* plus the accepted commands other than E.                                *)
C20_RendersOnlyOnCommands ==
    /\ [][RejectedLineRendersNothing]_vars
    /\ []RenderCount

(* On a one-page list N and P were accepted around a rejected line: three  *)
(* lines read, three renders of the same page.                             *)
C20_Witness ==
    /\ op = "paginated_list" /\ pc = "cmd_read" /\ reads = 3
    /\ number_of_pages = 1 /\ current_page = 1
    /\ RejectedCommands = 1
    /\ PageLines = 0
    /\ Renders = 3

-----------------------------------------------------------------------------
(* paginated_list: the pages together. *)

(* The indices rendered on pages p..pages, page after page. *)
RECURSIVE IndicesFromPage(_, _, _, _)
IndicesFromPage(p, pages, n, items_per_page) ==
    IF p > pages THEN <<>>
    ELSE PageIndices(p, pages, n, items_per_page)
             \o IndicesFromPage(p + 1, pages, n, items_per_page)

(* The slices of pages 1..number_of_pages, as the render loop computes     *)
(* them, partition the indices 0..len-1 of the list.                       *)
PagesPartitionList ==
    LET slice(p) == PageIndices(p, number_of_pages, number_of_items, args.items_per_page)
    IN  /\ args.len.q = 0
        /\ IndicesFromPage(1, number_of_pages, number_of_items, args.items_per_page)
               = IndexRange(0, args.len.r)
        /\ \A p \in 1..(number_of_pages - 1) : Len(slice(p)) = args.items_per_page
        /\ LenAtLeast(args.len, 1) => \A p \in 1..number_of_pages : Len(slice(p)) >= 1

(* C21: for every item list and every items_per_page > 0 the slices        *)
(* rendered for pages 1..total_pages partition the list: taken page after  *)
(* page they are the indices of the list, each once and in order; every    *)
(* page but the last holds items_per_page items; no page of a non-empty    *)
(* list is empty.                                                          *)
(* (Checked on every list explored but the one of i32::MAX items, whose    *)
(* pages are too many to enumerate.)                                       *)
C21_PagesPartitionList ==
    InNavigator /\ args.len /= Usize(0, I32Max) => PagesPartitionList

(* The same for lists of fewer than 2^31 items. *)
PagesPartitionListBelowI32 == args.len.q = 0 => C21_PagesPartitionList

(* A list of four items shown two per page: both pages full. *)
PagesPartitionListBelowI32_Witness ==
    /\ InNavigator /\ pc = "cmd_read"
    /\ args.len = Usize(0, 4) /\ args.items_per_page = 2
    /\ number_of_pages = 2
    /\ PagesPartitionList

====
